---- MODULE Spec2Model ----
(***************************************************************************)
(* The Emacs Lisp Sphinx domain of doc/eldomain.py: the symbol registry    *)
(* (domaindata['symbols']), the directives that fill it, clear_doc,        *)
(* resolve_xref, the cl-struct/cl-slot context kept in env.temp_data and   *)
(* the cl-slot cross-reference role.                                       *)
(*                                                                         *)
(* Python strings that the code builds, splits or compares by content      *)
(* (symbol names, scopes, targets, reference texts) are sequences of       *)
(* one-character strings.  Document names, object types and exception      *)
(* names are only compared for equality and are TLA+ strings.              *)
(***************************************************************************)
EXTENDS Integers, Sequences, FiniteSets, TLC

VARIABLES
    symbols,    \* domaindata['symbols']: name -> scope -> <<docname, objtype>>
    docname,    \* env.docname, the document being read ("" before any read)
    ids,        \* state.document.ids of the document being read
    temp_data,  \* env.temp_data, restricted to the key 'el:cl-struct'
    depth,      \* number of cl-struct directives whose content is being parsed
    made,       \* targets produced by make_target, as <<scope, name, target>>
    last,       \* the call made last: its arguments and its outcome
    steps       \* number of calls made so far

vars == <<symbols, docname, ids, temp_data, depth, made, last, steps>>

----------------------------------------------------------------------------
(* Bounds of the model *)

MaxSteps == 5
MaxDepth == 2
MaxNameLen == 2

----------------------------------------------------------------------------
(* Strings *)

Tilde == "~"
Space == " "
Dash == "-"
Dot == "."

FunctionScope == <<"f", "u", "n", "c", "t", "i", "o", "n">>
VariableScope == <<"v", "a", "r", "i", "a", "b", "l", "e">>
FaceScope == <<"f", "a", "c", "e">>
StructScope == <<"s", "t", "r", "u", "c", "t">>

\* A scope that no object type declares.
ForeignScope == <<"k", "e", "y", "m", "a", "p">>

\* dict.get() / next(..., None) result for "nothing"; falsy like None and ''.
None == <<>>

\* The key of env.temp_data the directives use.
ClStructKey == "el:cl-struct"

\* The fixed list resolve_xref filters.
ScopeOrder == <<FunctionScope, VariableScope, FaceScope, StructScope>>

KnownScopes == {ScopeOrder[i] : i \in DOMAIN ScopeOrder}

\* EmacsLispDomain.object_types: objtype -> attrs['scope'].
object_types ==
    [t \in {"function", "macro", "command", "variable", "option", "hook",
            "face", "cl-struct", "cl-slot"} |->
        CASE t \in {"function", "macro", "command", "cl-slot"} -> FunctionScope
          [] t \in {"variable", "option", "hook"} -> VariableScope
          [] t = "face" -> FaceScope
          [] t = "cl-struct" -> StructScope]

\* EmacsLispDomain.roles that are cross-reference roles.
XRefRoles == {"symbol", "function", "macro", "command", "variable", "option",
              "hook", "face", "cl-struct", "cl-slot"}

\* 'el.{0}.{1}'.format(scope, name), dropping the scope.
make_target_noscope(scope, name) == <<"e", "l", Dot>> \o name

\* 'el.{0}.{1}'.format(scope, name)
make_target(scope, name) == <<"e", "l", Dot>> \o scope \o <<Dot>> \o name

\* str.startswith(c) for a one-character c.
StartsWith(s, c) == Len(s) > 0 /\ s[1] = c

\* str.lstrip(c) for a one-character c.
RECURSIVE LStrip(_, _)
LStrip(s, c) == IF StartsWith(s, c) THEN LStrip(Tail(s), c) ELSE s

\* Index of the first c in s, 0 when there is none.
RECURSIVE Find(_, _, _)
Find(s, c, i) ==
    IF i > Len(s) THEN 0 ELSE IF s[i] = c THEN i ELSE Find(s, c, i + 1)

\* str.split(c, 1): at most two parts, cut at the first c.
Split1(s, c) ==
    LET i == Find(s, c, 1)
    IN  IF i = 0 THEN <<s>>
        ELSE <<SubSeq(s, 1, i - 1), SubSeq(s, i + 1, Len(s))>>

\* next(ifilter(lambda s: s in scopes, order), None)
RECURSIVE FirstIn(_, _)
FirstIn(order, scopes) ==
    IF order = <<>> THEN None
    ELSE IF Head(order) \in scopes THEN Head(order)
    ELSE FirstIn(Tail(order), scopes)

----------------------------------------------------------------------------
(* Dictionaries *)

EmptyDict == <<>>

Put(d, k, v) == [x \in DOMAIN d \cup {k} |-> IF x = k THEN v ELSE d[x]]

Del(d, k) == [x \in DOMAIN d \ {k} |-> d[x]]

\* dict.setdefault(k, default), as the dictionary it leaves behind.
Setdefault(d, k, default) == IF k \in DOMAIN d THEN d ELSE Put(d, k, default)

----------------------------------------------------------------------------
(* Outcome of a call *)

NoWarning == [msg |-> "", other |-> "", scopes |-> {}, using |-> None]

NoCall ==
    [op |-> "", docname |-> "", name |-> None, objtype |-> "",
     explicit |-> FALSE, struct |-> None, before |-> EmptyDict,
     raised |-> "", ret |-> "", refdoc |-> "", target |-> None,
     title |-> None, warning |-> NoWarning]

\* An exception nobody catches ends the build.  The ValueError of
\* EmacsLispCLSlot.handle_signature is caught by ObjectDescription.run.
Aborted ==
    /\ last.raised # ""
    /\ ~(last.op = "cl-slot" /\ last.raised = "ValueError")

Running == ~Aborted /\ steps < MaxSteps

----------------------------------------------------------------------------
(* Inputs *)

Docs == {"A", "B"}

\* Symbol names given to the plain directives.
SymbolNames == {<<"f">>, <<"p", Dash, "x">>}

\* Names given to cl-struct directives and slot names given to cl-slot.
StructNames == {<<"p">>}
SlotNames == {<<"x">>}

\* Object types of the directives that are plain symbol descriptions.
SymbolTypes ==
    {"function", "macro", "command", "variable", "option", "hook", "face"}

\* Targets of cross-references; <<"n">> is never described.
RefTargets == SymbolNames \cup StructNames \cup {<<"n">>}

\* Texts of cl-slot references: bare, qualified by hand, "structure slot"
\* pairs, and the same with the '~' marker.
SlotRefTexts ==
    {<<"x">>, <<"p", Dash, "x">>, <<Tilde, "x">>,
     <<"p", Space, "x">>, <<Tilde, "p", Space, "x">>, <<"q", Space, "x">>}

\* The title of a reference written as `title <target>`.
ExplicitTitle == <<"T">>

----------------------------------------------------------------------------
(* EmacsLispSymbol.add_target_and_index *)

\* A slip of line 121: an existing entry is kept (first write wins).
register_entry_keep(symbol_scopes, scope, entry) ==
    IF scope \in DOMAIN symbol_scopes THEN symbol_scopes
    ELSE Put(symbol_scopes, scope, entry)

\* symbol_scopes[scope] = (docname, objtype)
register_entry(symbol_scopes, scope, entry) == Put(symbol_scopes, scope, entry)

\* The reporter.warning of lines 115-120; doc2path(docname) names the document.
duplicate_warning(symbol_scopes, scope) ==
    IF scope \in DOMAIN symbol_scopes
    THEN [NoWarning EXCEPT !.msg = "duplicate object description",
                           !.other = symbol_scopes[scope][1]]
    ELSE NoWarning

add_target_and_index(op, name, objtype) ==
    LET scope == object_types[objtype]
        targetname == make_target(scope, name)
        data == Setdefault(symbols, name, EmptyDict)
        symbol_scopes == data[name]
        call == [NoCall EXCEPT !.op = op, !.docname = docname, !.name = name,
                               !.objtype = objtype, !.target = targetname,
                               !.before = symbols]
    IN  IF targetname \notin ids
        THEN /\ ids' = ids \cup {targetname}
             /\ symbols' = Put(data, name,
                    register_entry(symbol_scopes, scope, <<docname, objtype>>))
             /\ last' = [call EXCEPT !.ret = "registered",
                            !.warning = duplicate_warning(symbol_scopes, scope)]
        ELSE /\ UNCHANGED <<ids, symbols>>
             /\ last' = [call EXCEPT !.ret = "skipped"]

----------------------------------------------------------------------------
(* The host starts reading a document: env.docname and a new state.document *)

ReadDoc(d) ==
    /\ Running
    /\ depth = 0
    /\ docname' = d
    /\ ids' = {}
    /\ last' = [NoCall EXCEPT !.op = "read_doc", !.docname = d]
    /\ steps' = steps + 1
    /\ UNCHANGED <<symbols, temp_data, depth, made>>

----------------------------------------------------------------------------
(* The directives *)

\* function, macro, command, variable, option, hook, face: handle_signature
\* returns the name, ObjectDescription.run passes it to add_target_and_index.
Describe(objtype, name) ==
    /\ Running
    /\ docname # ""
    /\ add_target_and_index("describe", name, objtype)
    /\ steps' = steps + 1
    /\ UNCHANGED <<docname, temp_data, depth, made>>

\* EmacsLispCLStruct: the signature is registered, then before_content runs.
ClStructBegin(name) ==
    /\ Running
    /\ docname # ""
    /\ depth < MaxDepth
    /\ add_target_and_index("cl-struct", name, "cl-struct")
    /\ temp_data' = Put(temp_data, ClStructKey, name)
    /\ depth' = depth + 1
    /\ steps' = steps + 1
    /\ UNCHANGED <<docname, made>>

\* A slip of line 225: the key is left in env.temp_data.
after_content_keep(data) == data

\* del self.env.temp_data['el:cl-struct']
after_content(data) == Del(data, ClStructKey)

\* EmacsLispCLStruct.after_content, when the directive's content is done.
ClStructEnd ==
    /\ Running
    /\ depth > 0
    /\ IF ClStructKey \in DOMAIN temp_data
       THEN /\ temp_data' = after_content(temp_data)
            /\ depth' = depth - 1
            /\ last' = [NoCall EXCEPT !.op = "after_content", !.docname = docname,
                                      !.struct = temp_data[ClStructKey]]
       ELSE /\ UNCHANGED <<temp_data, depth>>
            /\ last' = [NoCall EXCEPT !.op = "after_content", !.docname = docname,
                                      !.raised = "KeyError"]
    /\ steps' = steps + 1
    /\ UNCHANGED <<symbols, docname, ids, made>>

\* env.temp_data.get('el:cl-struct')
current_cl_struct(data) ==
    IF ClStructKey \in DOMAIN data THEN data[ClStructKey] ELSE None

\* EmacsLispCLSlot.handle_signature, then add_target_and_index with its result.
ClSlot(slot) ==
    /\ Running
    /\ docname # ""
    /\ LET struct == current_cl_struct(temp_data)
       IN  IF struct = None
           THEN /\ last' = [NoCall EXCEPT !.op = "cl-slot", !.docname = docname,
                                !.name = slot, !.objtype = "cl-slot",
                                !.raised = "ValueError"]
                /\ UNCHANGED <<symbols, ids>>
           ELSE add_target_and_index("cl-slot", struct \o <<Dash>> \o slot,
                                     "cl-slot")
    /\ steps' = steps + 1
    /\ UNCHANGED <<docname, temp_data, depth, made>>

----------------------------------------------------------------------------
(* EmacsLispSlotXRefRole.process_link *)

\* A slip of line 263: the target is left unqualified.
slot_symbol_bare(current_struct, target) == target

\* current_struct + '-' + target
slot_symbol(current_struct, target) == current_struct \o <<Dash>> \o target

\* The outcome of process_link: the exception raised ("" for none) and the
\* (title, target) pair returned.  parts.join('-') is a call of a method
\* that lists do not have, so the "structure slot" branch raises at line
\* 256 and lines 257-260 never run.
process_link(current_struct, has_explicit_title, title, target) ==
    LET omit_struct == StartsWith(target, Tilde)
        stripped == LStrip(target, Tilde)
        parts == Split1(stripped, Space)
    IN  IF Len(parts) > 1
        THEN [raised |-> "AttributeError", title |-> None, target |-> None]
        ELSE IF current_struct # None
        THEN [raised |-> "", title |-> title,
              target |-> slot_symbol(current_struct, stripped)]
        ELSE [raised |-> "", title |-> title, target |-> stripped]

\* A :el:cl-slot: reference.  XRefRole passes the text as title and target
\* unless the reference is written with an explicit title.
SlotRef(text, has_explicit_title) ==
    /\ Running
    /\ docname # ""
    /\ LET current_struct == current_cl_struct(temp_data)
           title == IF has_explicit_title THEN ExplicitTitle ELSE text
           out == process_link(current_struct, has_explicit_title, title, text)
       IN  last' = [NoCall EXCEPT !.op = "process_link", !.docname = docname,
                        !.name = text, !.objtype = "cl-slot",
                        !.explicit = has_explicit_title,
                        !.struct = current_struct,
                        !.raised = out.raised,
                        !.ret = IF out.raised = "" THEN "link" ELSE "",
                        !.title = out.title, !.target = out.target]
    /\ steps' = steps + 1
    /\ UNCHANGED <<symbols, docname, ids, temp_data, depth, made>>

----------------------------------------------------------------------------
(* EmacsLispDomain.clear_doc *)

\* A slip of line 354: the whole symbol is dropped, with all of its scopes.
clear_doc_symbol(data, name) ==
    [symbol \in DOMAIN data |->
        IF \E scope \in DOMAIN data[symbol] : data[symbol][scope][1] = name
        THEN EmptyDict
        ELSE data[symbol]]

\* The registry the two loops leave: items() is a copy in Python 2, so every
\* (symbol, scope) is visited and the matching ones are deleted.
clear_doc(data, name) ==
    [symbol \in DOMAIN data |->
        [scope \in {s \in DOMAIN data[symbol] : data[symbol][s][1] # name} |->
            data[symbol][scope]]]

ClearDoc(d) ==
    /\ Running
    /\ symbols' = clear_doc(symbols, d)
    /\ last' = [NoCall EXCEPT !.op = "clear_doc", !.docname = d,
                              !.before = symbols]
    /\ steps' = steps + 1
    /\ UNCHANGED <<docname, ids, temp_data, depth, made>>

----------------------------------------------------------------------------
(* EmacsLispDomain.resolve_xref *)

\* A slip of lines 362-363: the list starts with the variable scope.
ResolveOrderSwapped == <<VariableScope, FunctionScope, FaceScope, StructScope>>

\* The list the generic reference filters, lines 362-363.
ResolveOrder == ScopeOrder

Raise(exception) ==
    [raised |-> exception, ret |-> "", refdoc |-> "", target |-> None,
     warning |-> NoWarning]

\* Lines 373-377: None, or make_refnode(..., docname, make_target(...), ...).
Refnode(scopes, scope, target, warning) ==
    IF scope \notin DOMAIN scopes
    THEN [raised |-> "", ret |-> "None", refdoc |-> "", target |-> None,
          warning |-> warning]
    ELSE [raised |-> "", ret |-> "refnode", refdoc |-> scopes[scope][1],
          target |-> make_target(scope, target), warning |-> warning]

resolve_xref(data, objtype, target) ==
    IF target \notin DOMAIN data
    THEN Raise("KeyError")                      \* self.data['symbols'][target]
    ELSE LET scopes == data[target]
         IN  IF objtype = "symbol" /\ Cardinality(DOMAIN scopes) > 1
             THEN LET scope == FirstIn(ResolveOrder, DOMAIN scopes)
                  IN  IF scope = None
                      THEN Raise("ValueError")
                      ELSE Refnode(scopes, scope, target,
                               [NoWarning EXCEPT !.msg = "Ambiguous reference",
                                                 !.scopes = DOMAIN scopes,
                                                 !.using = scope])
             ELSE IF objtype \notin DOMAIN object_types
             THEN Raise("KeyError")             \* self.object_types[objtype]
             ELSE Refnode(scopes, object_types[objtype], target, NoWarning)

ResolveXref(objtype, target) ==
    /\ Running
    /\ LET out == resolve_xref(symbols, objtype, target)
       IN  last' = [NoCall EXCEPT !.op = "resolve_xref", !.name = target,
                        !.objtype = objtype, !.raised = out.raised,
                        !.ret = out.ret, !.refdoc = out.refdoc,
                        !.target = out.target, !.warning = out.warning]
    /\ steps' = steps + 1
    /\ UNCHANGED <<symbols, docname, ids, temp_data, depth, made>>

----------------------------------------------------------------------------
(* The build: documents are read, purged and their references resolved *)

Init ==
    /\ symbols = EmptyDict
    /\ docname = ""
    /\ ids = {}
    /\ temp_data = EmptyDict
    /\ depth = 0
    /\ made = {}
    /\ last = NoCall
    /\ steps = 0

Next ==
    \/ \E d \in Docs : ReadDoc(d)
    \/ \E t \in SymbolTypes, n \in SymbolNames : Describe(t, n)
    \/ \E n \in StructNames : ClStructBegin(n)
    \/ ClStructEnd
    \/ \E s \in SlotNames : ClSlot(s)
    \/ \E r \in SlotRefTexts, e \in BOOLEAN : SlotRef(r, e)
    \/ \E d \in Docs : ClearDoc(d)
    \/ \E t \in XRefRoles, n \in RefTargets : ResolveXref(t, n)

Spec == Init /\ [][Next]_vars

----------------------------------------------------------------------------
(* make_target as a function of any scope of the domain and any name *)

\* Characters of names: the separator and letters of the 'el' prefix.
NameChars == {Dot, "e", "l"}

ShortNames == UNION {[1..k -> NameChars] : k \in 1..MaxNameLen}

\* Names: short ones, the scope names themselves, and a scope name followed
\* by the separator and a short name.
TargetNames ==
    ShortNames \cup KnownScopes
    \cup {s \o <<Dot>> \o n : s \in KnownScopes, n \in ShortNames}

\* Two targets are made, to be compared.
MakeTarget(scope, name) ==
    /\ Cardinality(made) < 2
    /\ made' = made \cup {<<scope, name, make_target(scope, name)>>}
    /\ UNCHANGED <<symbols, docname, ids, temp_data, depth, last, steps>>

NextTarget == \E s \in KnownScopes, n \in TargetNames : MakeTarget(s, n)

SpecTarget == Init /\ [][NextTarget]_vars

----------------------------------------------------------------------------
(* resolve_xref as a function of the registry it is handed: self.data is   *)
(* the domain data of the environment, which the build loads as stored     *)

DataNames == {<<"f">>}

DataEntry(scope) ==
    IF scope \in KnownScopes
    THEN <<"A", CHOOSE t \in DOMAIN object_types : object_types[t] = scope>>
    ELSE <<"A", "keymap">>

DataRegistries ==
    {[n \in DataNames |-> [s \in S |-> DataEntry(s)]] :
        S \in SUBSET (KnownScopes \cup {ForeignScope})}

InitData ==
    /\ symbols \in DataRegistries
    /\ docname = ""
    /\ ids = {}
    /\ temp_data = EmptyDict
    /\ depth = 0
    /\ made = {}
    /\ last = NoCall
    /\ steps = 0

NextData == \E t \in XRefRoles, n \in DataNames : ResolveXref(t, n)

SpecData == InitData /\ [][NextData]_vars

----------------------------------------------------------------------------
(* Properties.  `last` describes the call that led to the current state,   *)
(* so a state predicate over `last` and the other variables relates a      *)
(* call's arguments, its outcome and the state it left.                    *)

HasEntry(data, name, scope) ==
    name \in DOMAIN data /\ scope \in DOMAIN data[name]

Registering == last.op \in {"describe", "cl-struct", "cl-slot"} /\ last.raised = ""

Resolving == last.op = "resolve_xref"

Linking == last.op = "process_link"

\* The reference text after its '~' markers, and whether it is a
\* "structure slot" pair.
LinkText == LStrip(last.name, Tilde)
IsPair == Find(LinkText, Space, 1) > 0

\* The first of function, variable, face, struct that is in S.
PreferredScope(S) ==
    IF FunctionScope \in S THEN FunctionScope
    ELSE IF VariableScope \in S THEN VariableScope
    ELSE IF FaceScope \in S THEN FaceScope
    ELSE StructScope

\* C1: after clear_doc(D) every (name, scope) entry that D declared is gone
\* and a reference of a kind of that scope resolves to nothing, while every
\* entry declared by another document is unchanged, also under the same
\* name, and nothing is added.
C1_ClearDocRemovesOwnEntriesOnly ==
    last.op = "clear_doc" =>
        /\ DOMAIN symbols = DOMAIN last.before
        /\ \A n \in DOMAIN last.before :
            /\ DOMAIN symbols[n] \subseteq DOMAIN last.before[n]
            /\ \A s \in DOMAIN last.before[n] :
                IF last.before[n][s][1] = last.docname
                THEN /\ ~HasEntry(symbols, n, s)
                     /\ \A t \in DOMAIN object_types :
                            object_types[t] = s =>
                                resolve_xref(symbols, t, n).ret = "None"
                ELSE /\ HasEntry(symbols, n, s)
                     /\ symbols[n][s] = last.before[n][s]

\* A purge of a document that declared one scope of a name whose other scope
\* another document declared.
C1_Witness ==
    /\ last.op = "clear_doc"
    /\ \E n \in DOMAIN last.before : \E s1, s2 \in DOMAIN last.before[n] :
        /\ last.before[n][s1][1] = last.docname
        /\ last.before[n][s2][1] # last.docname
        /\ ~HasEntry(symbols, n, s1)

\* C2: registering (name, scope) from a document when another document's
\* entry for (name, scope) exists warns, naming that other document, does
\* not end the build, and leaves the registering document's entry, which a
\* reference of that kind then resolves to.
C2_DuplicateWarnsAndOverwrites ==
    LET scope == object_types[last.objtype]
    IN  (/\ Registering
         /\ HasEntry(last.before, last.name, scope)
         /\ last.before[last.name][scope][1] # last.docname)
        => /\ last.ret = "registered"
           /\ last.warning.msg = "duplicate object description"
           /\ last.warning.other = last.before[last.name][scope][1]
           /\ ~Aborted
           /\ symbols[last.name][scope] = <<last.docname, last.objtype>>
           /\ resolve_xref(symbols, last.objtype, last.name).refdoc
                = last.docname

C2_Witness ==
    /\ Registering
    /\ last.docname = "B"
    /\ HasEntry(last.before, last.name, object_types[last.objtype])
    /\ last.before[last.name][object_types[last.objtype]][1] = "A"
    /\ last.warning.other = "A"

\* C3: a 'symbol' reference to a name with more than one scope resolves to
\* the entry of the first of function, variable, face, struct the name has,
\* and warns, naming that scope and all the scopes of the name.
C3_GenericPrefersFixedOrder ==
    (/\ Resolving
     /\ last.objtype = "symbol"
     /\ last.name \in DOMAIN symbols
     /\ Cardinality(DOMAIN symbols[last.name]) > 1)
    => LET scopes == symbols[last.name]
           scope == PreferredScope(DOMAIN scopes)
       IN  /\ last.raised = ""
           /\ last.ret = "refnode"
           /\ last.refdoc = scopes[scope][1]
           /\ last.target = make_target(scope, last.name)
           /\ last.warning.msg = "Ambiguous reference"
           /\ last.warning.using = scope
           /\ last.warning.scopes = DOMAIN scopes

C3_Witness ==
    /\ Resolving
    /\ last.objtype = "symbol"
    /\ last.name \in DOMAIN symbols
    /\ {FunctionScope, VariableScope} \subseteq DOMAIN symbols[last.name]
    /\ last.warning.using = FunctionScope

\* C4: a reference of a concrete kind resolves to nothing, without an
\* error, whenever the registry has no entry for (target, scope of the kind).
C4_NoEntryResolvesToNothing ==
    (/\ Resolving
     /\ last.objtype \in DOMAIN object_types
     /\ ~HasEntry(symbols, last.name, object_types[last.objtype]))
    => last.raised = "" /\ last.ret = "None"

\* C5: a 'symbol' reference to a name with exactly one scope resolves to
\* that scope's entry, without a warning.
C5_GenericSingleScopeResolves ==
    (/\ Resolving
     /\ last.objtype = "symbol"
     /\ last.name \in DOMAIN symbols
     /\ Cardinality(DOMAIN symbols[last.name]) = 1)
    => LET scopes == symbols[last.name]
           scope == CHOOSE s \in DOMAIN scopes : TRUE
       IN  /\ last.raised = ""
           /\ last.ret = "refnode"
           /\ last.refdoc = scopes[scope][1]
           /\ last.target = make_target(scope, last.name)
           /\ last.warning = NoWarning

\* C6: a "structure slot" reference, with or without '~', gets the target
\* "structure-slot"; without an explicit title it shows the slot alone when
\* '~' is there or the structure is the current one, and the qualified form
\* otherwise.
C6_PairIsQualified ==
    (Linking /\ IsPair)
    => LET parts == Split1(LinkText, Space)
           qualified == parts[1] \o <<Dash>> \o parts[2]
       IN  /\ last.raised = ""
           /\ last.target = qualified
           /\ ~last.explicit =>
                IF StartsWith(last.name, Tilde) \/ last.struct = parts[1]
                THEN last.title = parts[2]
                ELSE last.title \in {last.name, qualified}

\* C7 as stated: a reference without a structure part, under the current
\* struct S, whose text is the qualified symbol "S-slot" gets the target
\* "S-slot" and the title "slot".
C7_QualifiedTextKeepsTarget ==
    (Linking /\ ~IsPair /\ ~last.explicit /\ last.struct # None)
    => \A slot \in SlotNames :
        last.name = last.struct \o <<Dash>> \o slot
            => last.target = last.name /\ last.title = slot

\* C7 amended: a reference without a structure part, under the current
\* struct S, gets the target S + '-' + text, the text without its leading
\* '~', and keeps its title: the text unless a title was given.
C7_BareTextIsPrefixed ==
    (Linking /\ ~IsPair /\ last.struct # None)
    => /\ last.raised = ""
       /\ last.target = last.struct \o <<Dash>> \o LinkText
       /\ last.title = IF last.explicit THEN ExplicitTitle ELSE last.name

\* The text "p-x" under the current struct "p".
C7_Witness ==
    /\ Linking
    /\ last.struct = <<"p">>
    /\ last.name = <<"p", Dash, "x">>
    /\ last.target = <<"p", Dash, "p", Dash, "x">>
    /\ last.title = <<"p", Dash, "x">>

\* C8 as stated: outside every cl-struct block a cl-slot directive and a
\* reference without a structure part both fail.
C8_OutsideStructFails ==
    (/\ depth = 0
     /\ \/ last.op = "cl-slot"
        \/ Linking /\ ~IsPair)
    => last.raised # ""

\* C8 amended: outside every cl-struct block a cl-slot directive fails with
\* the ValueError of the missing structure and registers nothing; a
\* reference without a structure part does not fail there: its target is
\* the text without its leading '~' and its title is kept.
C8_OutsideStructDirectiveFails ==
    /\ depth = 0 => current_cl_struct(temp_data) = None
    /\ (depth = 0 /\ last.op = "cl-slot")
        => last.raised = "ValueError" /\ last.ret = ""
    /\ (depth = 0 /\ Linking /\ ~IsPair)
        => /\ last.raised = ""
           /\ last.target = LinkText
           /\ last.title = IF last.explicit THEN ExplicitTitle ELSE last.name

\* A cl-slot directive fails after a cl-struct block of the document being
\* read has ended.
C8_Witness ==
    /\ depth = 0
    /\ last.op = "cl-slot"
    /\ last.raised = "ValueError"
    /\ \E n \in StructNames : make_target(StructScope, n) \in ids

C10_MakeTargetInjective ==
    \A a, b \in made : a[3] = b[3] => a[1] = b[1] /\ a[2] = b[2]

\* Two pairs whose targets differ only by where the scope ends: the name of
\* one is the scope of the other, the separator and the other's name.
C10_Witness ==
    \E a, b \in made :
        /\ a[1] # b[1]
        /\ a[2] = b[1] \o <<Dot>> \o b[2]
        /\ a[3] # b[3]

====
